---- MODULE Spec2Model ----
(***************************************************************************)
(* Model of poller/main.py: the heartbeat handler lambda_handler.          *)
(*                                                                         *)
(* An invocation is a small process: the platform calls the handler with   *)
(* (event, context); the handler evaluates the dict display of its return  *)
(* statement left to right, i.e. it first reads the clock and truncates it *)
(* with int(), then stringifies the event and slices the text, and         *)
(* finally returns the record.  str(event) may raise, in which case the    *)
(* exception leaves the handler and no record is returned.                 *)
(*                                                                         *)
(* Text is a sequence of one-character strings.  The system clock is       *)
(* counted in ticks, TicksPerSec ticks to the second.                      *)
(***************************************************************************)
EXTENDS Integers, Sequences, FiniteSets, TLC

\* ---------------------------------------------------------------- bounds
NumInvocations == 2      \* invocations the platform may have in flight
MaxClock       == 5      \* last clock tick modelled, one invocation
ParMaxClock    == 2      \* last clock tick modelled, parallel invocations
TicksPerSec    == 2      \* clock resolution: ticks in one second
MaxStrLen      == 500    \* longest string event
MaxItems       == 1      \* most items in a dict event

\* ------------------------------------------------------ program constants
PreviewLen == 200        \* the slice bound of str(event)[:200]

\* ------------------------------------------------------------ Python text
Min(a, b) == IF a < b THEN a ELSE b

Digits == <<"0", "1", "2", "3", "4", "5", "6", "7", "8", "9">>

\* repr() of a non-negative int: its decimal digits
RECURSIVE IntRepr(_)
IntRepr(n) ==
    IF n < 10 THEN <<Digits[n + 1]>>
    ELSE IntRepr(n \div 10) \o <<Digits[(n % 10) + 1]>>

\* repr() of a str made of plain letters: the text in single quotes
StrRepr(chars) == <<"'">> \o chars \o <<"'">>

\* repr() of one dict item:  'key': value
ItemRepr(item) == StrRepr(item[1]) \o <<":", " ">> \o IntRepr(item[2])

\* the items of a dict joined by ", " in insertion order
RECURSIVE JoinItems(_)
JoinItems(items) ==
    IF items = << >> THEN << >>
    ELSE IF Len(items) = 1 THEN ItemRepr(items[1])
    ELSE ItemRepr(items[1]) \o <<",", " ">> \o JoinItems(Tail(items))

\* ------------------------------------------------------------ the inputs
\* Python values an event can be.  A dict keeps its items in insertion
\* order; an "unprintable" object is one whose __str__ raises.
PyNone        == [kind |-> "None"]
PyStrVal(cs)  == [kind |-> "str", chars |-> cs]
PyDict(items) == [kind |-> "dict", items |-> items]
Unprintable   == [kind |-> "unprintable"]
NoArg         == [kind |-> "unset"]

Alphabet == <<"a", "b", "c", "d", "e", "f", "g">>

\* a string of n letters that cycles through the alphabet, so that no two
\* windows of PreviewLen characters at different offsets below 7 are equal
Letters(n) == [i \in 1..n |-> Alphabet[((i - 1) % Len(Alphabet)) + 1]]

StrLens == {0, 1, PreviewLen - 1, PreviewLen, PreviewLen + 1, MaxStrLen}

Keys == {<<"a">>, <<"b">>}
Vals == {1, 23}

RECURSIVE ItemSeqs(_)
ItemSeqs(n) ==
    IF n = 0 THEN {<< >>}
    ELSE LET shorter == ItemSeqs(n - 1)
         IN  shorter \cup
             {Append(s, <<k, v>>) :
                 s \in {t \in shorter : Len(t) = n - 1},
                 k \in Keys, v \in Vals}

DistinctKeys(items) ==
    \A i, j \in 1..Len(items) : i # j => items[i][1] # items[j][1]

EmptyDict == PyDict(<< >>)
DictA1    == PyDict(<< <<(<<"a">>), 1>> >>)

DictEvents == {PyDict(s) : s \in {t \in ItemSeqs(MaxItems) : DistinctKeys(t)}}
StrEvents  == {PyStrVal(Letters(n)) : n \in StrLens}

Events    == DictEvents \cup StrEvents \cup {PyNone, Unprintable}
ParEvents == {EmptyDict, PyStrVal(Letters(PreviewLen + 1))}

Contexts == {PyNone, [kind |-> "LambdaContext"]}

Procs == 1..NumInvocations
Main  == 1

\* ------------------------------------------------------- pure operations
\* whether str(v) returns (TRUE) or raises (FALSE)
HasTextualForm(v) == v.kind \in {"None", "str", "dict"}

\* str(v) for a value that has a textual form
PyStr(v) ==
    CASE v.kind = "None" -> <<"N", "o", "n", "e">>
      [] v.kind = "str"  -> v.chars
      [] v.kind = "dict" -> <<"{">> \o JoinItems(v.items) \o <<"}">>

\* text[-n:], the last n characters instead of the first
SliceSuffix(text, n) ==
    SubSeq(text, Len(text) - Min(n, Len(text)) + 1, Len(text))

\* text[:n]
SlicePrefix(text, n) == SubSeq(text, 1, Min(n, Len(text)))

\* str(event)[:199], a slice one character short
PreviewOneShort(v) == SlicePrefix(PyStr(v), PreviewLen - 1)

\* str(event)[:200]
Preview(v) == SlicePrefix(PyStr(v), PreviewLen)

\* rounding the clock reading up to the next whole second
PyIntRoundUp(ticks) == (ticks + TicksPerSec - 1) \div TicksPerSec

\* int(time.time()) for a clock reading in ticks: truncation to seconds
PyInt(ticks) == ticks \div TicksPerSec

\* the record with another component's message
HeartbeatRecordPollerMessage(t, preview) ==
    [status        |-> "ok",
     message       |-> "poller heartbeat",
     time          |-> t,
     event_preview |-> preview]

\* the record with the context's request id added
HeartbeatRecordExtraKey(t, preview) ==
    [status        |-> "ok",
     message       |-> "ingestor heartbeat",
     time          |-> t,
     event_preview |-> preview,
     request_id    |-> "unknown"]

\* the dict display of the return statement
HeartbeatRecord(t, preview) ==
    [status        |-> "ok",
     message       |-> "ingestor heartbeat",
     time          |-> t,
     event_preview |-> preview]

\* ----------------------------------------------------------------- state
VARIABLES
    clock,       \* the system clock, in ticks
    pc,          \* where each invocation stands
    event,       \* the event object each invocation was called with
    context,     \* the context object each invocation was called with
    t,           \* the evaluated "time" entry of each invocation
    result,      \* the records each invocation has returned (none or one)
    startClock,  \* history: the clock when the invocation was called
    readClock    \* history: the clock reading time.time() returned

vars == <<clock, pc, event, context, t, result, startClock, readClock>>

NoTime == -1

Init ==
    /\ clock = 0
    /\ pc = [p \in Procs |-> "idle"]
    /\ event = [p \in Procs |-> NoArg]
    /\ context = [p \in Procs |-> NoArg]
    /\ t = [p \in Procs |-> NoTime]
    /\ result = [p \in Procs |-> {}]
    /\ startClock = [p \in Procs |-> NoTime]
    /\ readClock = [p \in Procs |-> NoTime]

\* the system clock advances, up to the last tick modelled
Tick(last) ==
    /\ clock < last
    /\ clock' = clock + 1
    /\ UNCHANGED <<pc, event, context, t, result, startClock, readClock>>

\* the platform calls lambda_handler(e, c)
Invoke(p, e, c) ==
    /\ pc[p] = "idle"
    /\ pc' = [pc EXCEPT ![p] = "called"]
    /\ event' = [event EXCEPT ![p] = e]
    /\ context' = [context EXCEPT ![p] = c]
    /\ startClock' = [startClock EXCEPT ![p] = clock]
    /\ UNCHANGED <<clock, t, result, readClock>>

\* "time": int(time.time())
ReadClock(p) ==
    /\ pc[p] = "called"
    /\ t' = [t EXCEPT ![p] = PyInt(clock)]
    /\ readClock' = [readClock EXCEPT ![p] = clock]
    /\ pc' = [pc EXCEPT ![p] = "timed"]
    /\ UNCHANGED <<clock, event, context, result, startClock>>

\* a handler that empties the event it was given (event.clear())
StringifyClearsEvent(p) ==
    /\ pc[p] = "timed"
    /\ IF HasTextualForm(event[p])
       THEN /\ result' = [result EXCEPT
                            ![p] = {HeartbeatRecord(t[p], Preview(event[p]))}]
            /\ pc' = [pc EXCEPT ![p] = "returned"]
       ELSE /\ result' = result
            /\ pc' = [pc EXCEPT ![p] = "raised"]
    /\ event' = [event EXCEPT ![p] = EmptyDict]
    /\ UNCHANGED <<clock, context, t, startClock, readClock>>

\* a handler that previews an event kept in a module-level global, which
\* any invocation in flight may have written
StringifySharedEvent(p) ==
    /\ pc[p] = "timed"
    /\ LET q == CHOOSE q \in Procs : pc[q] # "idle"
       IN  IF HasTextualForm(event[q])
           THEN /\ result' = [result EXCEPT
                                ![p] = {HeartbeatRecord(t[p], Preview(event[q]))}]
                /\ pc' = [pc EXCEPT ![p] = "returned"]
           ELSE /\ result' = result
                /\ pc' = [pc EXCEPT ![p] = "raised"]
    /\ UNCHANGED <<clock, event, context, t, startClock, readClock>>

\* a handler that previews str(event or context): an empty event is falsy
Falsy(v) ==
    \/ v.kind = "None"
    \/ v.kind = "str" /\ v.chars = << >>
    \/ v.kind = "dict" /\ v.items = << >>

ContextText(c) ==
    IF c.kind = "None" THEN <<"N", "o", "n", "e">> ELSE <<"<", "c", "t", "x", ">">>

StringifyEventOrContext(p) ==
    /\ pc[p] = "timed"
    /\ IF HasTextualForm(event[p])
       THEN /\ result' = [result EXCEPT
                ![p] = {HeartbeatRecord(t[p],
                          IF Falsy(event[p])
                          THEN SlicePrefix(ContextText(context[p]), PreviewLen)
                          ELSE Preview(event[p]))}]
            /\ pc' = [pc EXCEPT ![p] = "returned"]
       ELSE /\ result' = result
            /\ pc' = [pc EXCEPT ![p] = "raised"]
    /\ UNCHANGED <<clock, event, context, t, startClock, readClock>>

\* a handler that rejects an empty event with an exception
StringifyRejectsEmpty(p) ==
    /\ pc[p] = "timed"
    /\ IF HasTextualForm(event[p]) /\ ~Falsy(event[p])
       THEN /\ result' = [result EXCEPT
                            ![p] = {HeartbeatRecord(t[p], Preview(event[p]))}]
            /\ pc' = [pc EXCEPT ![p] = "returned"]
       ELSE /\ result' = result
            /\ pc' = [pc EXCEPT ![p] = "raised"]
    /\ UNCHANGED <<clock, event, context, t, startClock, readClock>>

\* a handler that catches the exception of str(event) and substitutes an
\* empty preview
StringifySubstitutesEmpty(p) ==
    /\ pc[p] = "timed"
    /\ result' = [result EXCEPT
                    ![p] = {HeartbeatRecord(t[p],
                              IF HasTextualForm(event[p])
                              THEN Preview(event[p]) ELSE << >>)}]
    /\ pc' = [pc EXCEPT ![p] = "returned"]
    /\ UNCHANGED <<clock, event, context, t, startClock, readClock>>

\* "event_preview": str(event)[:200], then the return of the record;
\* an exception of str(event) leaves the handler instead
Stringify(p) ==
    /\ pc[p] = "timed"
    /\ IF HasTextualForm(event[p])
       THEN /\ result' = [result EXCEPT
                            ![p] = {HeartbeatRecord(t[p], Preview(event[p]))}]
            /\ pc' = [pc EXCEPT ![p] = "returned"]
       ELSE /\ result' = result
            /\ pc' = [pc EXCEPT ![p] = "raised"]
    /\ UNCHANGED <<clock, event, context, t, startClock, readClock>>

\* one invocation, every kind of event
Next ==
    \/ Tick(MaxClock)
    \/ \E e \in Events, c \in Contexts : Invoke(Main, e, c)
    \/ ReadClock(Main)
    \/ Stringify(Main)

Spec == Init /\ [][Next]_vars

\* invocations in parallel
ParNext ==
    \/ Tick(ParMaxClock)
    \/ \E p \in Procs, e \in ParEvents, c \in Contexts : Invoke(p, e, c)
    \/ \E p \in Procs : ReadClock(p)
    \/ \E p \in Procs : Stringify(p)

ParSpec == Init /\ [][ParNext]_vars

\* the handler is straight-line code that never blocks: a started
\* invocation keeps running
FairSpec ==
    /\ Spec
    /\ WF_vars(ReadClock(Main))
    /\ WF_vars(Stringify(Main))

TypeOK ==
    /\ clock \in 0..MaxClock
    /\ \A p \in Procs :
        /\ pc[p] \in {"idle", "called", "timed", "returned", "raised"}
        /\ Cardinality(result[p]) <= 1

\* ---------------------------------------------------------------- claims
Returned(p) == pc[p] = "returned"

\* the text of the event of invocation p
EventText(p) == PyStr(event[p])

\* C1: every returned record has status "ok" and message "ingestor
\* heartbeat", whatever the event and the context.
C1_StatusAndMessage ==
    \A p \in Procs : \A r \in result[p] :
        r.status = "ok" /\ r.message = "ingestor heartbeat"

\* the scenario event = {"a": 1}, context None has returned
C1_Witness ==
    /\ Returned(Main)
    /\ event[Main] = DictA1
    /\ context[Main] = PyNone
    /\ \E r \in result[Main] :
          r.event_preview = <<"{", "'", "a", "'", ":", " ", "1", "}">>

\* C2: an event whose text is longer than 200 characters is previewed by
\* exactly the first 200 characters of that text, in order.
C2_LongTextTruncated ==
    \A p \in Procs : \A r \in result[p] :
        Len(EventText(p)) > 200 =>
            /\ Len(r.event_preview) = 200
            /\ \A i \in 1..200 : r.event_preview[i] = EventText(p)[i]

\* an event with a text of 500 characters has been previewed
C2_Witness ==
    /\ Returned(Main)
    /\ Len(EventText(Main)) = 500
    /\ result[Main] # {}

\* C3: an event whose text has at most 200 characters is previewed by the
\* whole text, and the empty dict by "{}".
C3_ShortTextUnchanged ==
    \A p \in Procs : \A r \in result[p] :
        /\ Len(EventText(p)) <= 200 => r.event_preview = EventText(p)
        /\ event[p] = EmptyDict => r.event_preview = <<"{", "}">>

\* an event with a text of exactly 200 characters has been previewed
C3_Witness ==
    /\ Returned(Main)
    /\ Len(EventText(Main)) = 200
    /\ \E r \in result[Main] : Len(r.event_preview) = 200

\* C4: time is an integer, the clock reading taken during the invocation
\* truncated to whole seconds: not later than the clock now, and later than
\* the clock at call start minus one second.
C4_TimeIsTruncatedClock ==
    \A p \in Procs : \A r \in result[p] :
        /\ r.time \in Int
        /\ startClock[p] <= readClock[p] /\ readClock[p] <= clock
        /\ r.time * TicksPerSec <= readClock[p]
        /\ readClock[p] < (r.time + 1) * TicksPerSec
        /\ r.time * TicksPerSec <= clock
        /\ r.time * TicksPerSec > startClock[p] - TicksPerSec

\* a reading between two whole seconds has been truncated
C4_Witness ==
    /\ Returned(Main)
    /\ readClock[Main] % TicksPerSec # 0
    /\ \E r \in result[Main] : r.time >= 1

\* C5: every returned record has exactly the keys status, message, time and
\* event_preview.
C5_ExactlyFourKeys ==
    \A p \in Procs : \A r \in result[p] :
        DOMAIN r = {"status", "message", "time", "event_preview"}

\* a record has been returned to a call with a context object
C5_Witness ==
    /\ Returned(Main)
    /\ context[Main] # PyNone
    /\ Cardinality(result[Main]) = 1

\* a step of the handler of invocation p
HandlerStep(p) == pc[p] \in {"called", "timed"} /\ pc'[p] # pc[p]

\* C6: a step of the handler changes neither the event, nor the context,
\* nor the clock, nor anything that belongs to another invocation.
C6_NoSideEffects ==
    [][\A p \in Procs :
          HandlerStep(p) =>
              /\ event' = event
              /\ context' = context
              /\ clock' = clock
              /\ startClock' = startClock
              /\ \A q \in Procs \ {p} :
                    /\ pc'[q] = pc[q]
                    /\ t'[q] = t[q]
                    /\ result'[q] = result[q]
                    /\ readClock'[q] = readClock[q]]_vars

\* a handler has run to its return while another invocation was in flight
C6_Witness ==
    \E p, q \in Procs :
        /\ p # q
        /\ Returned(p)
        /\ event[p] \in ParEvents
        /\ pc[q] = "timed"

\* C7: under every interleaving, the record of an invocation is the one it
\* returns alone with its own event and its own clock reading.
C7_InvocationsIndependent ==
    \A p \in Procs :
        Returned(p) =>
            result[p] = {HeartbeatRecord(PyInt(readClock[p]), Preview(event[p]))}

\* two overlapping invocations with different events have both returned
C7_Witness ==
    \E p, q \in Procs :
        /\ Returned(p) /\ Returned(q)
        /\ event[p] # event[q]
        /\ startClock[q] <= readClock[p]
        /\ startClock[p] <= readClock[q]
        /\ readClock[p] # readClock[q]
        /\ result[p] # result[q]

\* C8: an invocation with an event that has a textual form never raises,
\* and once called it returns a record.
C8_NeverFails ==
    /\ [](\A p \in Procs : pc[p] = "raised" => ~HasTextualForm(event[p]))
    /\ \A p \in Procs :
          (pc[p] = "called" /\ HasTextualForm(event[p])) ~> Returned(p)

\* the empty string has been previewed for a call without a context
C8_Witness ==
    /\ Returned(Main)
    /\ context[Main] = PyNone
    /\ event[Main] = PyStrVal(<< >>)
    /\ result[Main] # {}

\* C9: two invocations with the same event and the same clock reading
\* return the same record, whatever their contexts.
C9_ContextUnused ==
    \A p, q \in Procs :
        (/\ Returned(p) /\ Returned(q)
         /\ event[p] = event[q]
         /\ readClock[p] = readClock[q]) => result[p] = result[q]

\* two invocations that differ in their context only have both returned
C9_Witness ==
    \E p, q \in Procs :
        /\ Returned(p) /\ Returned(q)
        /\ event[p] = event[q]
        /\ readClock[p] = readClock[q]
        /\ context[p] # context[q]

\* C10: when str(event) raises, the handler ends with the exception, has
\* returned no record, and the failing step changes nothing else.
C10_FailurePropagates ==
    /\ [](\A p \in Procs : pc[p] = "raised" => result[p] = {})
    /\ [][\A p \in Procs :
            (pc[p] = "timed" /\ ~HasTextualForm(event[p]) /\ pc'[p] # pc[p]) =>
                /\ pc'[p] = "raised"
                /\ result' = result
                /\ UNCHANGED <<clock, event, context, t, startClock,
                               readClock>>]_vars

\* an invocation with an unprintable event has ended with the exception,
\* after it had read the clock
C10_Witness ==
    /\ pc[Main] = "raised"
    /\ event[Main] = Unprintable
    /\ t[Main] # NoTime
    /\ result[Main] = {}

====
